---- MODULE Spec2Model ----
(***************************************************************************)
(* Model of kmibot/modules/pub/commands.py: the PubCommand group with its  *)
(* helpers _event_is_pub, _choose_pub, _get_next_pub_time, _get_next_event *)
(* and _create_pub_event, and the three commands info, next and now.       *)
(*                                                                         *)
(* A datetime is the number of seconds since 00:00:00 of a Monday, in the  *)
(* configured (fixed offset) time zone; a date is the number of days since *)
(* that Monday, so that date.weekday() is the day number modulo 7.         *)
(***************************************************************************)
EXTENDS Integers, Sequences, FiniteSets, TLC

VARIABLES
    clock,      \* the wall clock read by datetime.now(tz=config.timezone)
    cfg,        \* config.pub: weekday, hour, minute (immutable after start)
    events,     \* guild.scheduled_events, in iteration order
    channel,    \* messages posted in the configured pub channel, in order
    inv,        \* the command invocations (one coroutine each)
    overlap,    \* history: two `next` invocations were in flight at once
    result      \* return value of the helper applied last (pure checks)

vars == <<clock, cfg, events, channel, inv, overlap, result>>

\* Python's None and a present value, as sequences of length 0 and 1
None == <<>>
Some(x) == <<x>>

-----------------------------------------------------------------------------
(* Calendar arithmetic of datetime / timedelta.                            *)

DaysPerWeek == 7
SecondsPerMinute == 60
SecondsPerHour == 60 * SecondsPerMinute
SecondsPerDay == 24 * SecondsPerHour

\* datetime(year, month, day, hour, minute, tzinfo=tz) for the date `day`
DateTime(day, hour, minute) ==
    day * SecondsPerDay + hour * SecondsPerHour + minute * SecondsPerMinute

\* now.date(), date.weekday(), now.hour, now.minute
DateOf(t) == t \div SecondsPerDay
Weekday(day) == day % DaysPerWeek
HourOf(t) == (t % SecondsPerDay) \div SecondsPerHour
MinuteOf(t) == (t % SecondsPerHour) \div SecondsPerMinute

\* Python's ordering of 2-tuples: (a1, a2) < (b1, b2)
TupleLess(a, b) == a[1] < b[1] \/ (a[1] = b[1] /\ a[2] < b[2])

\* Mutation: the time-of-day comparison made inclusive (<= instead of <).
TimeNotYetPassedInclusive(now, c) ==
    ~TupleLess(<<c.hour, c.minute>>, <<HourOf(now), MinuteOf(now)>>)

\* commands.py:41  (now.hour, now.minute) < (pub.hour, pub.minute)
TimeNotYetPassed(now, c) ==
    TupleLess(<<HourOf(now), MinuteOf(now)>>, <<c.hour, c.minute>>)

\* commands.py:39-42  the condition of "the pub has not yet happened"
PubNotYetHappened(now, c) ==
    LET today == DateOf(now) IN
    \/ Weekday(today) < c.weekday
    \/ (Weekday(today) = c.weekday /\ TimeNotYetPassed(now, c))

\* Mutation: this week's Monday taken to be today.
ThisMondayNoWeekday(today) == today

\* commands.py:44  monday = today - timedelta(days=today.weekday())
ThisMonday(today) == today - Weekday(today)

\* Mutation: next week's Monday taken to be today + 7 days.
NextMondayWholeWeek(today) == today + DaysPerWeek

\* commands.py:47  monday = today + timedelta(days=7 - today.weekday())
NextMonday(today) == today + (DaysPerWeek - Weekday(today))

\* commands.py:36-57  PubCommand._get_next_pub_time, with now as argument
_get_next_pub_time(now, c) ==
    LET today == DateOf(now)
        monday == IF PubNotYetHappened(now, c)
                  THEN ThisMonday(today)
                  ELSE NextMonday(today)
        pubday == monday + c.weekday
    IN  DateTime(pubday, c.hour, c.minute)

-----------------------------------------------------------------------------
(* Scheduled events and the lookup.                                        *)
(* A string is a sequence of one-character strings, so that Python's       *)
(* substring test `in` is computed, not assumed.                           *)

PubWord == <<"P", "u", "b">>
SpontaneousPubWord ==
    <<"S", "p", "o", "n", "t", "a", "n", "e", "o", "u", "s", " ", "P", "u", "b">>

\* Python's  sub in s  on strings
Contains(sub, s) ==
    \E i \in 0..(Len(s) - Len(sub)) : SubSeq(s, i + 1, i + Len(sub)) = sub

\* Mutation: the name compared for equality with "Pub".
_event_is_pub_exact(event) == event.name = PubWord

\* commands.py:20-21  PubCommand._event_is_pub
_event_is_pub(event) == Contains(PubWord, event.name)

\* Mutation: the start time is not compared.
EventMatchesAnyTime(event, pub_time) == _event_is_pub(event)

\* commands.py:62  the condition of the lookup's loop
EventMatches(event, pub_time) ==
    _event_is_pub(event) /\ event.start_time = pub_time

\* commands.py:61-64  the loop over guild.scheduled_events, from index k
RECURSIVE ScanEvents(_, _, _)
ScanEvents(evs, k, pub_time) ==
    IF k > Len(evs) THEN None
    ELSE IF EventMatches(evs[k], pub_time) THEN Some(evs[k])
    ELSE ScanEvents(evs, k + 1, pub_time)

\* commands.py:59-64  PubCommand._get_next_event; now is the clock it reads
_get_next_event(evs, now, c) ==
    ScanEvents(evs, 1, _get_next_pub_time(now, c))

-----------------------------------------------------------------------------
(* Inputs of the pure checks.                                              *)

MaxDay == 8     \* dates 0..MaxDay: a whole week and the start of the next

SampleHours == {0, 10, 18, 19, 20, 23}
SampleMinutes == {0, 29, 30, 31, 59}
SampleSeconds == {0, 59}
ConfigHours == {0, 19, 23}
ConfigMinutes == {0, 30, 59}

\* config.pub.weekday / hour / minute
PubConfigs ==
    [weekday : 0..(DaysPerWeek - 1), hour : ConfigHours, minute : ConfigMinutes]

SampleTimes ==
    { DateTime(d, h, m) + s :
        d \in 0..MaxDay, h \in SampleHours, m \in SampleMinutes, s \in SampleSeconds }

-----------------------------------------------------------------------------
(* SpecTime: _get_next_pub_time applied to every sampled now and config.   *)

InitTime ==
    /\ clock \in SampleTimes
    /\ cfg \in PubConfigs
    /\ events = <<>>
    /\ channel = <<>>
    /\ inv = <<>>
    /\ overlap = FALSE
    /\ result = None

ComputeNextPubTime ==
    /\ result = None
    /\ result' = Some(_get_next_pub_time(clock, cfg))
    /\ UNCHANGED <<clock, cfg, events, channel, inv, overlap>>

NextTime == ComputeNextPubTime

SpecTime == InitTime /\ [][NextTime]_vars

-----------------------------------------------------------------------------
(* Claims C1 - C3, stated on minutes of the Monday-to-Sunday week.         *)

SecondsPerWeek == DaysPerWeek * SecondsPerDay

\* position of a time, and of the configured slot, within the week
MinuteOfWeek(t) == (t % SecondsPerWeek) \div SecondsPerMinute
SlotMinuteOfWeek(c) == (c.weekday * 24 + c.hour) * 60 + c.minute

\* the configured weekday of the week of t, at the configured hour:minute
CurrentWeekOccurrence(t, c) ==
    (t \div SecondsPerWeek) * SecondsPerWeek
        + SlotMinuteOfWeek(c) * SecondsPerMinute

\* C1 as stated: at the exact boundary (now on the configured weekday at the
\* configured hour and minute) the result is the current week's occurrence.
C1_BoundaryCurrentWeek ==
    (result # None /\ MinuteOfWeek(clock) = SlotMinuteOfWeek(cfg))
        => result[1] = CurrentWeekOccurrence(clock, cfg)

\* C1 amended: at the exact boundary the result is the occurrence seven days
\* after the current week's one (the comparison of line 41 is strict).
C1_BoundaryNextWeek ==
    (result # None /\ MinuteOfWeek(clock) = SlotMinuteOfWeek(cfg))
        => result[1] = CurrentWeekOccurrence(clock, cfg) + SecondsPerWeek

C1_Witness ==
    /\ result # None
    /\ MinuteOfWeek(clock) = SlotMinuteOfWeek(cfg)
    /\ clock % SecondsPerMinute = 0

\* C2: for every now strictly before the configured (weekday, hour, minute)
\* within the week, the result is the configured weekday of the current week
\* at the configured hour:minute.
C2_BeforeCurrentWeek ==
    (result # None /\ MinuteOfWeek(clock) < SlotMinuteOfWeek(cfg))
        => result[1] = CurrentWeekOccurrence(clock, cfg)

\* the scenario of the claim: Friday 19:00 configured, now = Monday 10:00
C2_Witness ==
    /\ cfg = [weekday |-> 4, hour |-> 19, minute |-> 0]
    /\ clock = DateTime(7, 10, 0)
    /\ result = Some(DateTime(11, 19, 0))

\* C3: for every now strictly after the configured (weekday, hour, minute)
\* within the week, the result is exactly 7 days after the current week's
\* occurrence.
C3_AfterNextWeek ==
    (result # None /\ MinuteOfWeek(clock) > SlotMinuteOfWeek(cfg))
        => result[1] = CurrentWeekOccurrence(clock, cfg) + SecondsPerWeek

\* the scenario of the claim: Friday 19:00 configured, now = Friday 20:00
C3_Witness ==
    /\ cfg = [weekday |-> 4, hour |-> 19, minute |-> 0]
    /\ clock = DateTime(4, 20, 0)
    /\ result = Some(DateTime(11, 19, 0))

-----------------------------------------------------------------------------
(* SpecLookup: _get_next_event applied to every sampled list of events.    *)

MaxLookupEvents == 3    \* length of the sampled lists of events

Friday1900 == [weekday |-> 4, hour |-> 19, minute |-> 0]

LookupConfigs == {Friday1900}
LookupTimes == {DateTime(0, 10, 0), DateTime(4, 19, 0), DateTime(6, 23, 59) + 59}

SampleNames ==
    { <<"*", " ">> \o PubWord \o <<" ", "*">>,
      <<"*", " ">> \o SpontaneousPubWord \o <<" ", "*">>,
      <<"p", "u", "b">>,
      <<"P", "u", " ", "b">> }
SampleStarts ==
    { DateTime(4, 19, 0), DateTime(4, 19, 0) + 1, DateTime(11, 19, 0) }

\* lists of events whose id is their position, as the guild hands them out
SampleEventLists ==
    UNION { { [k \in 1..n |->
                 [id |-> k, name |-> f[k][1], start_time |-> f[k][2],
                  end_time |-> f[k][2] + SecondsPerHour,
                  location |-> "elsewhere", cmd |-> "guild"]] :
              f \in [1..n -> SampleNames \X SampleStarts] } :
            n \in 0..MaxLookupEvents }

InitLookup ==
    /\ clock \in LookupTimes
    /\ cfg \in LookupConfigs
    /\ events \in SampleEventLists
    /\ channel = <<>>
    /\ inv = <<>>
    /\ overlap = FALSE
    /\ result = None

ApplyLookup ==
    /\ result = None
    /\ result' = Some(_get_next_event(events, clock, cfg))
    /\ UNCHANGED <<clock, cfg, events, channel, inv, overlap>>

NextLookup == ApplyLookup

SpecLookup == InitLookup /\ [][NextLookup]_vars

\* positions of the events whose name contains "Pub" and whose start time is
\* the next-pub time of the clock
MatchingPositions ==
    { k \in 1..Len(events) :
        /\ Contains(<<"P", "u", "b">>, events[k].name)
        /\ events[k].start_time = _get_next_pub_time(clock, cfg) }

C4_Result ==
    result # None =>
        /\ (result[1] = None <=> MatchingPositions = {})
        /\ \A k \in MatchingPositions :
               (\A j \in MatchingPositions : k <= j) => result[1] = Some(events[k])

\* C4: the lookup returns the first event in iteration order whose name
\* contains "Pub" and whose start time equals the computed next-pub time,
\* none exactly when there is no such event (the empty list included), and it
\* changes neither the list of events nor any other state.
C4_Lookup ==
    /\ []C4_Result
    /\ [][result' # None =>
            <<clock, cfg, events, channel, inv, overlap>>' =
            <<clock, cfg, events, channel, inv, overlap>>]_vars

\* a second match follows the one returned, and a non-matching event precedes it
C4_Witness ==
    /\ result # None
    /\ Cardinality(MatchingPositions) >= 2
    /\ 1 \notin MatchingPositions
    /\ result[1] # None

-----------------------------------------------------------------------------
(* The commands.  Each invocation is one coroutine; an action is the code   *)
(* between two suspension points, and the call it ends with takes effect   *)
(* (or raises) in the same step.                                           *)

NumInv == 2     \* command invocations in one behaviour

Ids == 1..NumInv

\* config.pub.pubs: a real venue and a fake one (PubInfo.fake is set)
Pubs ==
    << [name |-> "Crown", emoji |-> "*", fake |-> None],
       [name |-> "Moon", emoji |-> "+", fake |-> Some("landlord")] >>

\* the configuration with its list of venues, config.pub.pubs
WithPubs(c, pubs) ==
    [weekday |-> c.weekday, hour |-> c.hour, minute |-> c.minute, pubs |-> pubs]

\* the venues the selection view offers
PubSet == { cfg.pubs[k] : k \in 1..Len(cfg.pubs) }

\* moments at which the clock is observed: the second before the slot of the
\* first week, the slot itself, and an hour after it
ClockOffsets == {0 - 1, 0, SecondsPerHour}
ClockPoints ==
    { DateTime(cfg.weekday, cfg.hour, cfg.minute) + off : off \in ClockOffsets }

\* what view.wait_until_complete() hands back
Pending == [kind |-> "pending"]
Chosen(pub) == [kind |-> "pub", pub |-> pub]
ReturnedNone == [kind |-> "none"]
Raised == [kind |-> "raise"]

IdleInvocation ==
    [pc |-> "idle", cmd |-> "none", guild |-> TRUE, text |-> TRUE,
     found |-> None, found_id |-> None,
     pub_time |-> None, choice |-> Pending, pub |-> None,
     selectedAt |-> None, created |-> None, calls |-> <<>>]

\* the invocations are started in the order of their ids
MayStart(i) ==
    /\ inv[i].pc = "idle"
    /\ \A j \in Ids : j < i => inv[j].pc # "idle"

Running(r) == r.pc \in {"choosing", "selected", "created"}
Finished(r) == r.pc \in {"done", "failed"}

\* Mutation: the exception of a failed call is swallowed.
AfterSwallowed(ok, pc) == pc

\* the state a coroutine is left in by a call that returned (ok) or raised
After(ok, pc) == IF ok THEN pc ELSE "failed"

\* commands.py:77  name=f"{pub.emoji} {title} {pub.emoji}"
EventName(pub, title) == <<pub.emoji, " ">> \o title \o <<" ", pub.emoji>>

\* Mutation: the event's location is the venue's emoji.
_create_pub_event_emoji_location(evs, pub, start_time, title, cmd) ==
    [id |-> Len(evs) + 1, name |-> EventName(pub, title),
     start_time |-> start_time, end_time |-> start_time + 3 * SecondsPerHour,
     location |-> pub.emoji, cmd |-> cmd]

\* commands.py:66-83  PubCommand._create_pub_event: the event the guild gets
\* (cmd records the command that asked for it)
_create_pub_event(evs, pub, start_time, title, cmd) ==
    [id |-> Len(evs) + 1, name |-> EventName(pub, title),
     start_time |-> start_time, end_time |-> start_time + 3 * SecondsPerHour,
     location |-> pub.name, cmd |-> cmd]

\* commands.py:153-156, 194-197  the message for a fake venue
FakeMessage(i, pub, cmd) ==
    [by |-> i, cmd |-> cmd, kind |-> "oi", mention |-> pub.fake, pub |-> pub.name]

\* commands.py:166-177, 207-219  the announcement of a real venue
AnnounceMessage(i, pub, cmd) ==
    [by |-> i, cmd |-> cmd, kind |-> "announce", mention |-> None, pub |-> pub.name]

\* Mutation: a failed selection falls back on the first configured venue.
ChoiceResultWithDefault(choice) ==
    IF choice.kind = "pub" THEN Some(choice.pub) ELSE Some(Pubs[1])

\* commands.py:32-34  pub = await view.wait_until_complete(); pub.name; return
\* pub.  An exception of the view propagates, and a None makes pub.name raise:
\* None stands for the exception.
ChoiceResult(choice) ==
    IF choice.kind = "pub" THEN Some(choice.pub) ELSE None

\* Mutation: `now` adds nothing to the clock reading.
SpontaneousStartNoDelay(now) == now

\* commands.py:186-187  pub_time = now + timedelta(seconds=1)
SpontaneousStart(now) == now + 1

\* Mutation: no venue is taken for a fake one.
IsFakeNever(pub) == FALSE

\* commands.py:152, 193  if pub.fake
IsFake(pub) == pub.fake # None

\* Mutation: the assertions are compiled away.
AssertSkipped(cond) == TRUE

\* commands.py:95, 132, 150, 188, 191  assert cond: the code goes on when the
\* condition holds, and raises AssertionError when it does not
AssertHolds(cond) == cond

\* the id of the event a lookup returned
FoundId(found) == IF found = None THEN None ELSE Some(found[1].id)

\* Mutation: the guard of `next` lets every invocation through.
GuardNever(found) == FALSE

\* commands.py:134  if self._get_next_event(interaction.guild)
GuardStops(found) == found # None

\* Mutation: the last venue that satisfies the predicate is returned.
find_last(location, pubs) ==
    LET known == { k \in 1..Len(pubs) : pubs[k].name = location }
    IN  IF known = {} THEN None
        ELSE Some(pubs[CHOOSE k \in known : \A j \in known : k >= j])

\* commands.py:104-107  discord.utils.find(lambda p: p.name == location, pubs):
\* the first venue of the list with that name, or None
RECURSIVE find(_, _)
find(location, pubs) ==
    IF pubs = <<>> THEN None
    ELSE IF Head(pubs).name = location THEN Some(Head(pubs))
    ELSE find(location, Tail(pubs))

\* commands.py:96-127  the reply of `info` to the result of the lookup
InfoReply(found, pubs) ==
    IF found = None THEN [call |-> "reply", text |-> "none"]
    ELSE LET pub == find(found[1].location, pubs)
         IN  IF pub = None
             THEN [call |-> "reply", text |-> "noinfo",
                   location |-> found[1].location]
             ELSE [call |-> "reply", text |-> "info",
                   start_time |-> found[1].start_time,
                   pub |-> pub[1].name, emoji |-> pub[1].emoji]

InitCmd ==
    /\ cfg = WithPubs(Friday1900, Pubs)
    /\ clock = DateTime(cfg.weekday, cfg.hour, cfg.minute) - 1
    /\ events = <<>>
    /\ channel = <<>>
    /\ inv = [i \in Ids |-> IdleInvocation]
    /\ overlap = FALSE
    /\ result = None

\* time passes
Tick ==
    /\ \E t \in ClockPoints : t > clock /\ clock' = t
    /\ UNCHANGED <<cfg, events, channel, inv, overlap, result>>

\* commands.py:92-127  PubCommand.info
InfoCmd(i) ==
    /\ MayStart(i)
    /\ \E g \in BOOLEAN, ok \in BOOLEAN :
         LET found == _get_next_event(events, clock, cfg)
             reply == InfoReply(found, cfg.pubs)
         IN  inv' = [inv EXCEPT ![i] =
                 IF ~AssertHolds(g)
                 THEN [@ EXCEPT !.cmd = "info", !.guild = g, !.pc = "failed"]
                 ELSE [@ EXCEPT !.cmd = "info", !.guild = g,
                                !.found = Some(found # None),
                                !.found_id = FoundId(found),
                                !.calls = <<reply>>, !.pc = After(ok, "done")]]
    /\ UNCHANGED <<clock, cfg, events, channel, overlap, result>>

\* commands.py:129-147 and 23-31  PubCommand.next up to the venue prompt.
\* The guard's lookup and line 142 read the clock one after the other: the
\* second reading is t2.
NextCmd(i) ==
    /\ MayStart(i)
    /\ overlap' = (overlap \/ \E j \in Ids \ {i} :
                                 inv[j].cmd = "next" /\ Running(inv[j]))
    /\ \E g \in BOOLEAN, ok \in BOOLEAN, t2 \in ClockPoints \cup {clock} :
         /\ t2 >= clock
         /\ LET found == _get_next_event(events, clock, cfg)
                guarded == [inv[i] EXCEPT
                               !.cmd = "next", !.guild = g,
                               !.found = Some(found # None),
                               !.found_id = FoundId(found)]
            IN  IF ~AssertHolds(g)
                THEN /\ inv' = [inv EXCEPT ![i] =
                            [@ EXCEPT !.cmd = "next", !.guild = g, !.pc = "failed"]]
                     /\ clock' = clock
                ELSE IF GuardStops(found)
                THEN /\ inv' = [inv EXCEPT ![i] =
                            [guarded EXCEPT
                                !.calls = <<[call |-> "reply", text |-> "exists"]>>,
                                !.pc = After(ok, "done")]]
                     /\ clock' = clock
                ELSE /\ inv' = [inv EXCEPT ![i] =
                            [guarded EXCEPT
                                !.pub_time = Some(_get_next_pub_time(t2, cfg)),
                                !.calls = <<[call |-> "prompt"]>>,
                                !.pc = After(ok, "choosing")]]
                     /\ clock' = t2
    /\ UNCHANGED <<cfg, events, channel, result>>

\* commands.py:179-185 and 23-31  PubCommand.now up to the venue prompt
NowCmd(i) ==
    /\ MayStart(i)
    /\ \E ok \in BOOLEAN :
         inv' = [inv EXCEPT ![i] =
             [@ EXCEPT !.cmd = "now",
                       !.calls = <<[call |-> "prompt"]>>,
                       !.pc = After(ok, "choosing")]]
    /\ UNCHANGED <<clock, cfg, events, channel, overlap, result>>

\* history: the moment the selection completed, kept for `now`, the command
\* whose start time is computed after it
SelectionTime(r) == IF r.cmd = "now" THEN Some(clock) ELSE None

\* PubView: the user picks a venue and wait_until_complete() gets its value
UserSelects(i) ==
    /\ inv[i].pc = "choosing"
    /\ \E p \in PubSet :
         inv' = [inv EXCEPT ![i] =
             [@ EXCEPT !.choice = Chosen(p), !.selectedAt = SelectionTime(inv[i]),
                       !.pc = "selected"]]
    /\ UNCHANGED <<clock, cfg, events, channel, overlap, result>>

\* PubView: the view times out, the interaction is invalidated or expires, or
\* the user abandons the prompt
SelectionFails(i) ==
    /\ inv[i].pc = "choosing"
    /\ \E c \in {ReturnedNone, Raised} :
         inv' = [inv EXCEPT ![i] =
             [@ EXCEPT !.choice = c, !.pc = "selected"]]
    /\ UNCHANGED <<clock, cfg, events, channel, overlap, result>>

\* commands.py:149-163 and 188-205: from the channel lookup to the first call
\* of the announcer, for the venue pub and the start time pub_time of r
Announce(i, r0, text, title) ==
    \E ok \in BOOLEAN :
        LET r == [r0 EXCEPT !.text = text] IN
        IF ~AssertHolds(text)
        THEN /\ inv' = [inv EXCEPT ![i] = [r EXCEPT !.pc = "failed"]]
             /\ UNCHANGED <<events, channel>>
        ELSE IF IsFake(r.pub[1])
        THEN /\ inv' = [inv EXCEPT ![i] =
                    [r EXCEPT !.calls = Append(@, [call |-> "send"]),
                              !.pc = After(ok, "done")]]
             /\ channel' = IF ok THEN Append(channel, FakeMessage(i, r.pub[1], r.cmd))
                           ELSE channel
             /\ UNCHANGED events
        ELSE LET event == _create_pub_event(events, r.pub[1], r.pub_time[1], title, r.cmd)
             IN  /\ inv' = [inv EXCEPT ![i] =
                        [r EXCEPT !.calls = Append(@, [call |-> "create"]),
                                  !.created = IF ok THEN Some(event.id) ELSE None,
                                  !.pc = After(ok, "created")]]
                 /\ events' = IF ok THEN Append(events, event) ELSE events
                 /\ UNCHANGED channel

\* Mutation: `next` looks the event up again before it creates one.
NextAfterChoiceRechecked(i) ==
    /\ inv[i].pc = "selected"
    /\ inv[i].cmd = "next"
    /\ LET pub == ChoiceResult(inv[i].choice) IN
       IF pub = None
       THEN /\ inv' = [inv EXCEPT ![i] = [@ EXCEPT !.pc = "failed"]]
            /\ UNCHANGED <<events, channel>>
       ELSE IF _get_next_event(events, clock, cfg) # None
       THEN /\ inv' = [inv EXCEPT ![i] = [@ EXCEPT !.pub = pub, !.pc = "done"]]
            /\ UNCHANGED <<events, channel>>
       ELSE \E text \in BOOLEAN :
                Announce(i, [inv[i] EXCEPT !.pub = pub], text, PubWord)
    /\ UNCHANGED <<clock, cfg, overlap, result>>

\* commands.py:144-163  PubCommand.next from the venue selection to the
\* creation of the event (or the message for a fake venue)
NextAfterChoice(i) ==
    /\ inv[i].pc = "selected"
    /\ inv[i].cmd = "next"
    /\ LET pub == ChoiceResult(inv[i].choice) IN
       IF pub = None
       THEN /\ inv' = [inv EXCEPT ![i] = [@ EXCEPT !.pc = "failed"]]
            /\ UNCHANGED <<events, channel>>
       ELSE \E text \in BOOLEAN :
                Announce(i, [inv[i] EXCEPT !.pub = pub], text, PubWord)
    /\ UNCHANGED <<clock, cfg, overlap, result>>

\* commands.py:182-205  PubCommand.now from the venue selection to the
\* creation of the event (or the message for a fake venue)
NowAfterChoice(i) ==
    /\ inv[i].pc = "selected"
    /\ inv[i].cmd = "now"
    /\ LET pub == ChoiceResult(inv[i].choice) IN
       IF pub = None
       THEN /\ inv' = [inv EXCEPT ![i] = [@ EXCEPT !.pc = "failed"]]
            /\ UNCHANGED <<events, channel>>
       ELSE LET r == [inv[i] EXCEPT
                         !.pub = pub,
                         !.pub_time = Some(SpontaneousStart(clock))]
            IN  \E g \in BOOLEAN, text \in BOOLEAN :
                    IF ~AssertHolds(g)
                    THEN /\ inv' = [inv EXCEPT ![i] =
                                [r EXCEPT !.guild = g, !.pc = "failed"]]
                         /\ UNCHANGED <<events, channel>>
                    ELSE Announce(i, [r EXCEPT !.guild = g], text,
                                  SpontaneousPubWord)
    /\ UNCHANGED <<clock, cfg, overlap, result>>

\* commands.py:165-177 and 207-219  the announcement after the creation
PostAnnouncement(i) ==
    /\ inv[i].pc = "created"
    /\ \E ok \in BOOLEAN :
         /\ inv' = [inv EXCEPT ![i] =
                [@ EXCEPT !.calls = Append(@, [call |-> "send"]),
                          !.pc = After(ok, "done")]]
         /\ channel' = IF ok
                       THEN Append(channel, AnnounceMessage(i, inv[i].pub[1], inv[i].cmd))
                       ELSE channel
    /\ UNCHANGED <<clock, cfg, events, overlap, result>>

Next ==
    \/ Tick
    \/ \E i \in Ids : InfoCmd(i)
    \/ \E i \in Ids : NextCmd(i)
    \/ \E i \in Ids : NowCmd(i)
    \/ \E i \in Ids : UserSelects(i)
    \/ \E i \in Ids : SelectionFails(i)
    \/ \E i \in Ids : NextAfterChoice(i)
    \/ \E i \in Ids : NowAfterChoice(i)
    \/ \E i \in Ids : PostAnnouncement(i)

Spec == InitCmd /\ [][Next]_vars

-----------------------------------------------------------------------------
(* Claims C5 - C10, on the commands.                                       *)

\* the channel messages an invocation has posted
MessagesBy(i) == { k \in 1..Len(channel) : channel[k].by = i }

\* the calls of one kind an invocation has made
CallsOf(i, kind) == { k \in 1..Len(inv[i].calls) : inv[i].calls[k].call = kind }

\* a scheduled event taken for a pub event of the slot at time t
MatchesSlot(e, t) == Contains(<<"P", "u", "b">>, e.name) /\ e.start_time = t

\* C5: when the lookup of `next` finds a matching event, the invocation makes
\* the one call that replies "A pub event already exists." and is over: no
\* venue prompt, no creation of an event, no channel message.
C5_AlreadyExists ==
    \A i \in Ids :
        (inv[i].cmd = "next" /\ inv[i].found = Some(TRUE)) =>
            /\ inv[i].calls = <<[call |-> "reply", text |-> "exists"]>>
            /\ Finished(inv[i])
            /\ inv[i].created = None
            /\ MessagesBy(i) = {}

C5_Witness ==
    \E i \in Ids :
        /\ inv[i].cmd = "next"
        /\ inv[i].found = Some(TRUE)
        /\ inv[i].pc = "done"

\* the chosen venue of invocation i has a fake-user identifier
ChoseFake(i) == inv[i].choice.kind = "pub" /\ inv[i].choice.pub.fake # None

C6_NoEventForFake ==
    \A i \in Ids :
        (ChoseFake(i) /\ inv[i].cmd \in {"next", "now"}) =>
            /\ CallsOf(i, "create") = {}
            /\ inv[i].created = None
            /\ Cardinality(CallsOf(i, "send")) <= 1
            /\ Cardinality(MessagesBy(i)) <= 1
            /\ inv[i].pc = "done" => Cardinality(MessagesBy(i)) = 1
            /\ \A k \in MessagesBy(i) :
                   channel[k].mention = inv[i].choice.pub.fake

\* C6: in `next` and in `now`, an invocation whose chosen venue has a
\* fake-user identifier never calls the creation of a scheduled event: it
\* sends one channel message, which mentions the identifier, and its steps
\* leave the scheduled events unchanged.
C6_FakeVenue ==
    /\ []C6_NoEventForFake
    /\ [][\A i \in Ids :
            (ChoseFake(i) /\ inv'[i] # inv[i]) => events' = events]_vars

C6_Witness ==
    \E i, j \in Ids :
        /\ inv[i].cmd = "next" /\ ChoseFake(i) /\ inv[i].pc = "done"
        /\ inv[j].cmd = "now" /\ ChoseFake(j) /\ inv[j].pc = "done"

\* C7: in `next` and in `now`, an invocation whose venue selection failed, or
\* is never answered, makes no call after the prompt: it posts no channel
\* message and creates no scheduled event, and once resumed it has failed.
C7_SelectionFailureAborts ==
    \A i \in Ids :
        (inv[i].choice.kind \in {"none", "raise"} \/ inv[i].pc = "choosing") =>
            /\ inv[i].calls = <<[call |-> "prompt"]>>
            /\ inv[i].created = None
            /\ MessagesBy(i) = {}
            /\ inv[i].pc \in {"choosing", "selected", "failed"}

C7_Witness ==
    \E i, j \in Ids :
        /\ inv[i].cmd = "next" /\ inv[i].choice.kind = "none" /\ inv[i].pc = "failed"
        /\ inv[j].cmd = "now" /\ inv[j].choice.kind = "raise" /\ inv[j].pc = "failed"

\* C8: as long as no two `next` invocations were in flight at once, no two
\* scheduled events created by `next` match the same weekly slot.
C8_AtMostOnePerSlot ==
    ~overlap =>
        \A a, b \in 1..Len(events) :
            ( /\ events[a].cmd = "next"
              /\ events[b].cmd = "next"
              /\ MatchesSlot(events[a], events[b].start_time)
              /\ MatchesSlot(events[b], events[b].start_time) ) => a = b

\* one invocation created the event of the slot, a later one was stopped
C8_Witness ==
    /\ ~overlap
    /\ \E i, j \in Ids :
           /\ inv[i].cmd = "next" /\ inv[i].created # None
           /\ inv[j].cmd = "next" /\ inv[j].found = Some(TRUE)

\* C9: nothing stands between the guard of `next` and the creation: every
\* `next` invocation that got a real venue and whose creation call returned
\* has created a matching event for the slot it computed before the prompt,
\* whatever events exist by then; so two concurrent invocations that both
\* passed the guard both create one (C9_Witness).
C9_CreationUnguarded ==
    \A i \in Ids :
        ( /\ inv[i].cmd = "next"
          /\ inv[i].pc \in {"created", "done"}
          /\ inv[i].choice.kind = "pub"
          /\ inv[i].choice.pub.fake = None ) =>
            /\ inv[i].created # None
            /\ MatchesSlot(events[inv[i].created[1]], inv[i].pub_time[1])

\* two matching events of one slot, created by two `next` invocations
C9_Witness ==
    \E i, j \in Ids :
        /\ i # j
        /\ inv[i].cmd = "next" /\ inv[i].created # None
        /\ inv[j].cmd = "next" /\ inv[j].created # None
        /\ inv[i].found = Some(FALSE) /\ inv[j].found = Some(FALSE)
        /\ MatchesSlot(events[inv[i].created[1]], inv[i].pub_time[1])
        /\ MatchesSlot(events[inv[j].created[1]], inv[i].pub_time[1])

C10_StartAfterSelection ==
    \A i \in Ids :
        (inv[i].cmd = "now" /\ inv[i].pub_time # None) =>
            /\ inv[i].selectedAt # None
            /\ inv[i].pub_time[1] > inv[i].selectedAt[1]
            /\ inv[i].created # None =>
                   events[inv[i].created[1]].start_time = inv[i].pub_time[1]

\* C10: the start time of `now` is one second after the clock reading of the
\* step that follows the venue selection, so it is strictly later than the
\* moment the selection completed, and it is the start time of the event.
C10_NowStartTime ==
    /\ []C10_StartAfterSelection
    /\ [][\A i \in Ids :
            (inv[i].pub_time = None /\ inv'[i].cmd = "now" /\ inv'[i].pub_time # None)
                => (inv[i].pc = "selected" /\ inv'[i].pub_time = Some(clock + 1))]_vars

\* the selection completed an hour after the slot, the event starts a second
\* after the resumption
C10_Witness ==
    \E i \in Ids :
        /\ inv[i].cmd = "now"
        /\ inv[i].created # None
        /\ inv[i].selectedAt = Some(DateTime(cfg.weekday, cfg.hour, cfg.minute))
        /\ inv[i].pub_time = Some(clock + 1)
        /\ clock > inv[i].selectedAt[1]

-----------------------------------------------------------------------------
(* SpecInfo: `info` invoked on every sampled list of events and venues.    *)

\* a list of venues in which two venues bear the same name
TwinPubs ==
    << [name |-> "Crown", emoji |-> "*", fake |-> None],
       [name |-> "Crown", emoji |-> "#", fake |-> None],
       [name |-> "Moon", emoji |-> "+", fake |-> Some("landlord")] >>

InfoPubLists == {Pubs, TwinPubs}
InfoNames == { <<"*", " ">> \o PubWord \o <<" ", "*">>, <<"p", "u", "b">> }
InfoStarts == { DateTime(4, 19, 0), DateTime(11, 19, 0) }
InfoLocations == { "Crown", "elsewhere" }

InfoEventLists ==
    UNION { { [k \in 1..n |->
                 [id |-> k, name |-> f[k][1], start_time |-> f[k][2],
                  end_time |-> f[k][2] + SecondsPerHour,
                  location |-> f[k][3], cmd |-> "guild"]] :
              f \in [1..n -> InfoNames \X InfoStarts \X InfoLocations] } :
            n \in 0..MaxLookupEvents }

InitInfo ==
    /\ clock \in LookupTimes
    /\ cfg \in { WithPubs(Friday1900, pubs) : pubs \in InfoPubLists }
    /\ events \in InfoEventLists
    /\ channel = <<>>
    /\ inv = [i \in Ids |-> IdleInvocation]
    /\ overlap = FALSE
    /\ result = None

NextInfo == \E i \in Ids : InfoCmd(i)

SpecInfo == InitInfo /\ [][NextInfo]_vars

\* positions of the configured venues that bear the name of a location
VenuesNamed(location) ==
    { k \in 1..Len(cfg.pubs) : cfg.pubs[k].name = location }

Least(S) == CHOOSE k \in S : \A j \in S : k <= j

\* the reply the claim asks of `info` in the current state
ExpectedInfoReply ==
    IF MatchingPositions = {} THEN [call |-> "reply", text |-> "none"]
    ELSE LET e == events[Least(MatchingPositions)]
             K == VenuesNamed(e.location)
         IN  IF K = {}
             THEN [call |-> "reply", text |-> "noinfo", location |-> e.location]
             ELSE [call |-> "reply", text |-> "info", start_time |-> e.start_time,
                   pub |-> cfg.pubs[Least(K)].name,
                   emoji |-> cfg.pubs[Least(K)].emoji]

C11_OneReply ==
    \A i \in Ids :
        (inv[i].cmd = "info" /\ inv[i].guild) =>
            /\ inv[i].calls = <<ExpectedInfoReply>>
            /\ Finished(inv[i])
            /\ inv[i].created = None
            /\ MessagesBy(i) = {}

\* C11: `info` invoked in a server makes one call, the ephemeral reply, and is
\* over: "There is no pub scheduled" when the lookup finds nothing, "No
\* information about <location>" when no configured venue bears the name of
\* the event's location, else the countdown and the information of the first
\* configured venue of that name; no step of it creates an event or posts a
\* channel message.
C11_Info ==
    /\ []C11_OneReply
    /\ [][events' = events /\ channel' = channel]_vars

\* the venue information of the first of two venues of the same name
C11_Witness ==
    \E i \in Ids :
        /\ inv[i].cmd = "info"
        /\ inv[i].pc = "done"
        /\ inv[i].calls[1].text = "info"
        /\ MatchingPositions # {}
        /\ Cardinality(VenuesNamed(events[Least(MatchingPositions)].location)) = 2
        /\ Least(MatchingPositions) > 1

-----------------------------------------------------------------------------
(* Claims C12 - C13, on the commands.                                      *)

\* the chosen venue of invocation i is a real one
ChoseReal(i) == inv[i].choice.kind = "pub" /\ inv[i].choice.pub.fake = None

\* C12: in the non-fake branch of `next` and `now` the creation of the event
\* is called at most once and before the announcement; when the creation call
\* fails the invocation is over, with no announcement and no second attempt,
\* so an announcement is only ever posted after its event was created.
C12_CreateThenAnnounce ==
    \A i \in Ids :
        (ChoseReal(i) /\ inv[i].cmd \in {"next", "now"}) =>
            /\ Cardinality(CallsOf(i, "create")) <= 1
            /\ \A k \in CallsOf(i, "send") :
                   /\ inv[i].created # None
                   /\ \E j \in CallsOf(i, "create") : j < k
            /\ MessagesBy(i) # {} => inv[i].created # None
            /\ (CallsOf(i, "create") # {} /\ inv[i].created = None) =>
                   /\ inv[i].pc = "failed"
                   /\ MessagesBy(i) = {}
                   /\ inv[i].calls[Len(inv[i].calls)].call = "create"

\* the creation call of a `next` and of a `now` invocation failed
C12_Witness ==
    \E i, j \in Ids :
        /\ inv[i].cmd = "next" /\ inv[j].cmd = "now"
        /\ \A k \in {i, j} :
               /\ CallsOf(k, "create") # {}
               /\ inv[k].created = None
               /\ inv[k].pc = "failed"

C13_NoEffect ==
    \A i \in Ids :
        (~inv[i].guild \/ ~inv[i].text) =>
            /\ inv[i].pc = "failed"
            /\ inv[i].created = None
            /\ MessagesBy(i) = {}
            /\ CallsOf(i, "create") = {}
            /\ CallsOf(i, "send") = {}

\* C13: an invocation of `info`, `next` or `now` outside a server, and one of
\* `next` or `now` whose configured channel is no text channel, is over
\* without a scheduled event created and without a channel message posted,
\* and no later step changes it.
C13_PreconditionFatal ==
    /\ []C13_NoEffect
    /\ [][\A i \in Ids : inv[i].pc = "failed" => inv'[i] = inv[i]]_vars

\* `now` outside a server, and `next` with a channel that is no text channel
C13_Witness ==
    \E i, j \in Ids :
        /\ inv[i].cmd = "now" /\ ~inv[i].guild
        /\ inv[j].cmd = "next" /\ ~inv[j].text

-----------------------------------------------------------------------------
(* Claim C14, on _get_next_pub_time (SpecTime).                            *)

\* C14: for every now and every configuration the result falls on the
\* configured weekday at the configured hour:minute (and no seconds), is never
\* earlier than now, and is at most 7 days after now.
C14_NextOccurrence ==
    result # None =>
        /\ (result[1] \div SecondsPerDay) % DaysPerWeek = cfg.weekday
        /\ result[1] % SecondsPerDay =
               cfg.hour * SecondsPerHour + cfg.minute * SecondsPerMinute
        /\ result[1] >= clock
        /\ result[1] - clock <= DaysPerWeek * SecondsPerDay

\* the two ends of the range: a now in the last second of the slot's minute,
\* whose result is a week less 59 seconds away
C14_Witness ==
    /\ result # None
    /\ MinuteOfWeek(clock) = SlotMinuteOfWeek(cfg)
    /\ clock % SecondsPerMinute = 59
    /\ result[1] - clock = SecondsPerWeek - 59

-----------------------------------------------------------------------------
(* Claims C15 - C17, on the commands.                                      *)

\* C15: the lookup of `info` and of `next` never returns an event that `now`
\* created.
C15_NowEventNeverFound ==
    \A i \in Ids :
        (inv[i].cmd \in {"info", "next"} /\ inv[i].found_id # None) =>
            events[inv[i].found_id[1]].cmd # "now"

\* C16: in the step that takes a `next` invocation to its venue prompt, the
\* next-pub time kept for the event is the next-pub time of the guard's
\* lookup, which read the clock at the start of the step.
C16_GuardedSlotIsCreatedSlot ==
    [][\A i \in Ids :
          (inv[i].pc = "idle" /\ inv'[i].cmd = "next" /\ inv'[i].pub_time # None)
              => inv'[i].pub_time[1] = _get_next_pub_time(clock, cfg)]_vars

\* C17: in the step in which `next` creates its scheduled event, the start
\* time of the event is not earlier than the clock.
C17_StartNotBeforeCreation ==
    [][\A i \in Ids :
          (inv[i].cmd = "next" /\ inv[i].created = None /\ inv'[i].created # None)
              => events'[inv'[i].created[1]].start_time >= clock]_vars

-----------------------------------------------------------------------------
(* Claim C18, the round trip from `next` to the lookup.                    *)

\* the event that invocation i of `next` created for a real venue is what the
\* lookup returns at the present clock: the next-pub time is its start time
\* and no matching event precedes it
CreatedIsCurrent(i) ==
    /\ inv[i].cmd = "next" /\ ChoseReal(i) /\ inv[i].created # None
    /\ LET e == events[inv[i].created[1]]
           pub_time == _get_next_pub_time(clock, cfg)
       IN  /\ e.start_time = pub_time
           /\ \A k \in 1..(e.id - 1) : ~EventMatches(events[k], pub_time)

\* C18: while the event that a `next` invocation created for a real venue is
\* the one at the next-pub time, with no matching event before it, an `info`
\* that starts replies with that venue's information and a `next` that starts
\* replies that a pub event already exists.
C18_RoundTrip ==
    [][\A i, j \in Ids :
          (/\ CreatedIsCurrent(i)
           /\ inv[j].pc = "idle" /\ inv'[j].pc # "idle" /\ inv'[j].found # None)
          => /\ inv'[j].cmd = "info" =>
                   inv'[j].calls =
                       <<[call |-> "reply", text |-> "info",
                          start_time |-> events[inv[i].created[1]].start_time,
                          pub |-> inv[i].choice.pub.name,
                          emoji |-> inv[i].choice.pub.emoji]>>
             /\ inv'[j].cmd = "next" =>
                   inv'[j].calls = <<[call |-> "reply", text |-> "exists"]>>]_vars

\* an `info` that found the event a `next` invocation had created, and
\* replied with the venue chosen there
C18_Witness ==
    \E i, j \in Ids :
        /\ CreatedIsCurrent(i)
        /\ inv[j].cmd = "info" /\ inv[j].pc = "done"
        /\ inv[j].found_id = inv[i].created
        /\ inv[j].calls # <<>> /\ inv[j].calls[1].text = "info"
        /\ inv[j].calls[1].pub = inv[i].choice.pub.name

====
